---- MODULE Spec2Model ----
(***************************************************************************)
(* Event management server: the RSVP routes (routes/rsvp.js, kept as       *)
(* src/unnamed/part_000) and the event routes (src/server/routes/events.js)*)
(* run as concurrent request handlers over one document store.             *)
(*                                                                         *)
(* A handler is cut into one action per store call it awaits; the          *)
(* synchronous code after a store call belongs to that call's action.      *)
(* The store calls of the reservation handler and the writes of the other  *)
(* handlers may also throw (store unavailable, write or transaction        *)
(* refused by the store): the fault actions send the handler to its catch  *)
(* block.  Requests reach the handlers authenticated and with valid        *)
(* bodies.  Time is in milliseconds, as Date.getTime() gives it.           *)
(***************************************************************************)
EXTENDS Integers, Sequences, FiniteSets, TLC

\* events:   the events collection, one document per id
\* txnWrite: per event, the handler whose transaction holds an uncommitted
\*           write to the document (0: none)
\* now:      the clock
\* req:      per handler slot, the request it serves: operation, caller, place
\*           in the code, locals, and the answer once sent
\* reserved: per event, the users whose reservation was committed and who have
\*           not cancelled since (history, read by no handler)
VARIABLES events, txnWrite, now, req, reserved

vars == <<events, txnWrite, now, req, reserved>>

(* ----------------------------- bounds --------------------------------- *)
NumUsers == 2
NumEvents == 1
NumReqs == 2
MaxCap == 2
\* How far the clock moves between two readings with no await between them (ms).
MaxSkewMs == 1

Users == 1..NumUsers
\* The ids of the events collection.
EventIds == DOMAIN events
Reqs == 1..NumReqs
Capacities == 1..MaxCap

\* The instants the clock takes (ms): creation, 30 s, 1 ms before the window
\* opens, the opening instant, 61 s.
Instants == {0, 30000, 59999, 60000, 61000}
\* The dates an event is given: one that passes before the RSVP window opens,
\* one that passes right after it has opened.
Dates == {30000, 60000}
\* The users who create events.
Creators == {1}

(* --------------------------- program data ----------------------------- *)
\* rsvpOpenAt of a record that lacks the field (falsy in `event.rsvpOpenAt ||`).
Unset == -1

\* 60 * 1000: the respect time.
RespectMs == 60 * 1000

MsPerSecond == 1000

Range(s) == {s[i] : i \in 1..Len(s)}

NoEvent == [st |-> "free", date |-> 0, capacity |-> 1, attendees |-> <<>>,
            creator |-> 1, createdAt |-> 0, rsvpOpenAt |-> Unset]

GoneEvent == [NoEvent EXCEPT !.st = "gone"]

Live(e) == events[e].st = "live"

\* An event created with the RSVP window open at once.
NewEventNoRespectTime(u, cap, date, t) ==
    [st |-> "live", date |-> date, capacity |-> cap, attendees |-> <<>>,
     creator |-> u, createdAt |-> t, rsvpOpenAt |-> t]

\* new Event({... attendees: [], rsvpOpenAt: Date.now() + 60 * 1000}), timestamps.
NewEvent(u, cap, date, t) ==
    [st |-> "live", date |-> date, capacity |-> cap, attendees |-> <<>>,
     creator |-> u, createdAt |-> t, rsvpOpenAt |-> t + RespectMs]

\* A record written before the rsvpOpenAt field existed.
LegacyEvent(u, cap, date, t) ==
    [NewEvent(u, cap, date, t) EXCEPT !.rsvpOpenAt = Unset]

\* event.rsvpOpenAt || new Date(event.createdAt.getTime() + 60 * 1000)
EffectiveOpenAt(doc) ==
    IF doc.rsvpOpenAt # Unset THEN doc.rsvpOpenAt ELSE doc.createdAt + RespectMs

\* Math.ceil(a / b), b > 0 (\div rounds down).
Ceil(a, b) == -((-a) \div b)

\* Math.ceil((rsvpOpenAt - new Date()) / 1000)
WaitTime(openAt, t) == Ceil(openAt - t, MsPerSecond)

\* event.attendees.some(attendee => attendee.toString() === userId.toString())
IsAttendee(att, u) == \E i \in 1..Len(att) : att[i] = u

\* The filter with === for !==: it keeps the caller and drops the others.
WithoutInverted(att, u) == SelectSeq(att, LAMBDA a : a = u)

\* event.attendees.filter(attendee => attendee.toString() !== userId.toString())
Without(att, u) == SelectSeq(att, LAMBDA a : a # u)

\* $addToSet: { attendees: userId }
AddToSet(att, u) == IF IsAttendee(att, u) THEN att ELSE Append(att, u)

\* The filter of the conditional write (lines 62-66): the document exists,
\* attendees $ne userId, $size attendees $lt capacity.
Matches(doc, u) ==
    /\ doc.st = "live"
    /\ ~IsAttendee(doc.attendees, u)
    /\ Len(doc.attendees) < doc.capacity

\* A conditional write with no filter but the id, and $push for $addToSet.
UpdateOnePush(doc, u) ==
    [matched |-> doc.st = "live", attendees |-> Append(doc.attendees, u)]

\* A conditional write whose filter lacks the capacity expression.
UpdateOneNoCapacity(doc, u) ==
    [matched |-> doc.st = "live" /\ ~IsAttendee(doc.attendees, u),
     attendees |-> AddToSet(doc.attendees, u)]

\* Event.updateOne(filter, {$addToSet: {attendees: userId}}) (lines 61-70): whether
\* a document matched, and the attendees the write gives it.
UpdateOne(doc, u) ==
    [matched |-> Matches(doc, u),
     attendees |-> IF Matches(doc, u) THEN AddToSet(doc.attendees, u)
                   ELSE doc.attendees]

\* The pre-checks with the time gate before the past-event check.
RsvpPrecheckGateFirst(doc, u, tDate, tGate) ==
    IF doc.st # "live" THEN "NotFound"
    ELSE IF tGate < EffectiveOpenAt(doc) THEN "NotYetOpen"
    ELSE IF doc.date < tDate THEN "Expired"
    ELSE IF IsAttendee(doc.attendees, u) THEN "AlreadyReserved"
    ELSE IF Len(doc.attendees) >= doc.capacity THEN "AtCapacity"
    ELSE "Pass"

\* The pre-checks with <= for < in the time gate.
RsvpPrecheckExclusive(doc, u, tDate, tGate) ==
    IF doc.st # "live" THEN "NotFound"
    ELSE IF doc.date < tDate THEN "Expired"
    ELSE IF tGate <= EffectiveOpenAt(doc) THEN "NotYetOpen"
    ELSE IF IsAttendee(doc.attendees, u) THEN "AlreadyReserved"
    ELSE IF Len(doc.attendees) >= doc.capacity THEN "AtCapacity"
    ELSE "Pass"

\* The pre-checks with the capacity check before the duplicate check.
RsvpPrecheckCapacityFirst(doc, u, tDate, tGate) ==
    IF doc.st # "live" THEN "NotFound"
    ELSE IF doc.date < tDate THEN "Expired"
    ELSE IF tGate < EffectiveOpenAt(doc) THEN "NotYetOpen"
    ELSE IF Len(doc.attendees) >= doc.capacity THEN "AtCapacity"
    ELSE IF IsAttendee(doc.attendees, u) THEN "AlreadyReserved"
    ELSE "Pass"

\* The pre-checks of POST /api/rsvp/:eventId in their order (lines 21-57); tDate
\* and tGate are the two readings of the clock (lines 28 and 36).
RsvpPrecheck(doc, u, tDate, tGate) ==
    IF doc.st # "live" THEN "NotFound"
    ELSE IF doc.date < tDate THEN "Expired"
    ELSE IF tGate < EffectiveOpenAt(doc) THEN "NotYetOpen"
    ELSE IF IsAttendee(doc.attendees, u) THEN "AlreadyReserved"
    ELSE IF Len(doc.attendees) >= doc.capacity THEN "AtCapacity"
    ELSE "Pass"

\* The instants a reading of the clock may give when the reading before it, in
\* the same synchronous stretch of code, gave t: the clock has moved on by at
\* most MaxSkewMs.
Later(t) == {t2 \in Instants : t <= t2 /\ t2 <= t + MaxSkewMs}

Idle == [op |-> "none", pc |-> "idle", user |-> 1, ev |-> 1, att |-> <<>>,
         newCap |-> 0, newDate |-> Unset, out |-> "none", num |-> 0,
         txn |-> "none", list |-> <<>>]

Free(r) == req[r].pc \in {"idle", "done"}

\* No transaction other than r's holds an uncommitted write to the document.
Unlocked(e, r) == txnWrite[e] \in {0, r}

(* ------------------------------ Init ---------------------------------- *)
\* The store the server starts on: each id unused, or an event created at
\* instant 0, with the rsvpOpenAt field or (a legacy record) without it.
InitialEvents ==
    {NoEvent}
    \cup {NewEvent(u, cap, d, 0) : u \in Creators, cap \in Capacities, d \in Dates}
    \cup {LegacyEvent(u, cap, d, 0) : u \in Creators, cap \in Capacities, d \in Dates}

Init ==
    /\ events \in [1..NumEvents -> InitialEvents]
    /\ txnWrite = [e \in EventIds |-> 0]
    /\ now = 0
    /\ req = [r \in Reqs |-> Idle]
    /\ reserved = [e \in EventIds |-> {}]

(* ------------------------------ clock --------------------------------- *)
Tick ==
    /\ \E t \in Instants : t > now /\ now' = t
    /\ UNCHANGED <<events, txnWrite, req, reserved>>

(* -------------------- POST /api/rsvp/:eventId ------------------------- *)
\* Lines 10-57: startSession, startTransaction, findById in the session, the
\* pre-checks.  The clock is read at line 28 (now), again at line 36 (tGate) and,
\* when the gate rejects, a third time at line 37 (tWait); it has advanced to the
\* last reading when the step ends.  A failed pre-check aborts the transaction,
\* which has written nothing, ends the session and answers (lines 22-24, 29-31,
\* 38-42, 47-49, 54-56).
RsvpFind(r, u, e) ==
    /\ Free(r)
    /\ \E tGate \in Later(now) : \E tWait \in Later(tGate) :
        LET doc == events[e]
            out == RsvpPrecheck(doc, u, now, tGate)
            gated == out \notin {"NotFound", "Expired"}
        IN  /\ req' = [req EXCEPT ![r] =
                  [Idle EXCEPT !.op = "rsvp", !.user = u, !.ev = e,
                      !.pc = IF out = "Pass" THEN "update" ELSE "done",
                      !.out = out,
                      !.num = IF out = "NotYetOpen"
                              THEN WaitTime(EffectiveOpenAt(doc), tWait) ELSE 0,
                      !.txn = IF out = "Pass" THEN "open" ELSE "aborted"]]
            /\ now' = IF out = "NotYetOpen" THEN tWait
                      ELSE IF gated THEN tGate ELSE now
    /\ UNCHANGED <<events, txnWrite, reserved>>

\* Lines 61-78: the conditional write, in the transaction.  The write stays
\* uncommitted, and the document write-locked, until the transaction ends.  When
\* the filter matches no document the transaction is aborted and the request
\* answered 400 (lines 72-78).
RsvpUpdate(r) ==
    /\ req[r].op = "rsvp" /\ req[r].pc = "update"
    /\ Unlocked(req[r].ev, r)
    /\ LET w == UpdateOne(events[req[r].ev], req[r].user)
       IN  IF w.matched
           THEN /\ txnWrite' = [txnWrite EXCEPT ![req[r].ev] = r]
                /\ req' = [req EXCEPT ![r].pc = "commit", ![r].att = w.attendees]
           ELSE /\ req' = [req EXCEPT ![r].pc = "done", ![r].out = "LostRace",
                                      ![r].txn = "aborted"]
                /\ UNCHANGED txnWrite
    /\ UNCHANGED <<events, now, reserved>>

\* Lines 80-81: commitTransaction makes the write visible; endSession.
RsvpCommit(r) ==
    /\ req[r].op = "rsvp" /\ req[r].pc = "commit"
    /\ LET e == req[r].ev
           u == req[r].user
       IN  /\ events' = [events EXCEPT ![e].attendees = req[r].att]
           /\ txnWrite' = [txnWrite EXCEPT ![e] = 0]
           /\ reserved' = [reserved EXCEPT ![e] = @ \cup {u}]
    /\ req' = [req EXCEPT ![r].pc = "refetch", ![r].txn = "committed",
                          ![r].att = <<>>]
    /\ UNCHANGED now

\* Lines 84-91: the re-fetch for display and the 200 response.
RsvpRefetch(r) ==
    /\ req[r].op = "rsvp" /\ req[r].pc = "refetch"
    /\ req' = [req EXCEPT ![r].pc = "done", ![r].out = "OK"]
    /\ UNCHANGED <<events, txnWrite, now, reserved>>

\* Lines 92-97: an awaited store call throws (updateOne, commitTransaction, the
\* re-fetch).  The catch block aborts the transaction, which discards an
\* uncommitted write, and answers 500; abortTransaction on a transaction that
\* has already committed throws in turn, and no response is sent.
RsvpFault(r) ==
    /\ req[r].op = "rsvp" /\ req[r].pc \in {"update", "commit", "refetch"}
    /\ txnWrite' = [e \in EventIds |-> IF txnWrite[e] = r THEN 0 ELSE txnWrite[e]]
    /\ req' = [req EXCEPT ![r].pc = "done",
                 ![r].out = IF req[r].txn = "committed" THEN "NoResponse" ELSE "Internal",
                 ![r].txn = IF req[r].txn = "committed" THEN "committed" ELSE "aborted",
                 ![r].att = <<>>]
    /\ UNCHANGED <<events, now, reserved>>

\* findById at line 19 throws: the catch block aborts and answers 500.
RsvpFindFault(r, u, e) ==
    /\ Free(r)
    /\ req' = [req EXCEPT ![r] =
          [Idle EXCEPT !.op = "rsvp", !.user = u, !.ev = e, !.pc = "done",
                       !.out = "Internal", !.txn = "aborted"]]
    /\ UNCHANGED <<events, txnWrite, now, reserved>>

(* ------------------- DELETE /api/rsvp/:eventId ------------------------ *)
\* A cancel that refuses past events, as the reservation does.
CancelFindPastCheck(r, u, e) ==
    /\ Free(r)
    /\ LET doc == events[e]
           out == IF doc.st # "live" THEN "NotFound"
                  ELSE IF doc.date < now THEN "Expired"
                  ELSE IF ~IsAttendee(doc.attendees, u) THEN "NotReserved"
                  ELSE "Pass"
       IN  req' = [req EXCEPT ![r] =
               [Idle EXCEPT !.op = "cancel", !.user = u, !.ev = e,
                   !.pc = IF out = "Pass" THEN "save" ELSE "done",
                   !.out = out,
                   !.att = IF out = "Pass" THEN doc.attendees ELSE <<>>]]
    /\ UNCHANGED <<events, txnWrite, now, reserved>>

\* Lines 103-117: findById, the 404, the 400 of a user who has not RSVP'd.
CancelFind(r, u, e) ==
    /\ Free(r)
    /\ LET doc == events[e]
           out == IF doc.st # "live" THEN "NotFound"
                  ELSE IF ~IsAttendee(doc.attendees, u) THEN "NotReserved"
                  ELSE "Pass"
       IN  req' = [req EXCEPT ![r] =
               [Idle EXCEPT !.op = "cancel", !.user = u, !.ev = e,
                   !.pc = IF out = "Pass" THEN "save" ELSE "done",
                   !.out = out,
                   !.att = IF out = "Pass" THEN doc.attendees ELSE <<>>]]
    /\ UNCHANGED <<events, txnWrite, now, reserved>>

\* A cancel whose save stores the document anew when it is no longer there.
CancelSaveUpsert(r) ==
    /\ req[r].op = "cancel" /\ req[r].pc = "save"
    /\ Unlocked(req[r].ev, r)
    /\ events' = [events EXCEPT ![req[r].ev].st = "live",
                                ![req[r].ev].attendees = Without(req[r].att, req[r].user)]
    /\ reserved' = [reserved EXCEPT ![req[r].ev] = @ \ {req[r].user}]
    /\ req' = [req EXCEPT ![r].pc = "done", ![r].out = "OK", ![r].att = <<>>]
    /\ UNCHANGED <<txnWrite, now>>

\* A cancel that takes the caller out of every event.
CancelSaveEverywhere(r) ==
    /\ req[r].op = "cancel" /\ req[r].pc = "save"
    /\ Unlocked(req[r].ev, r)
    /\ events' = [e \in EventIds |->
                     [events[e] EXCEPT !.attendees = Without(@, req[r].user)]]
    /\ reserved' = [e \in EventIds |-> reserved[e] \ {req[r].user}]
    /\ req' = [req EXCEPT ![r].pc = "done", ![r].out = "OK", ![r].att = <<>>]
    /\ UNCHANGED <<txnWrite, now>>

\* Lines 119-132: the list read at line 108, without the caller, is saved over
\* the stored one; the re-fetch and the 200.  save() of a document that is no
\* longer in the store throws, and line 135 answers 500.
CancelSave(r) ==
    /\ req[r].op = "cancel" /\ req[r].pc = "save"
    /\ Unlocked(req[r].ev, r)
    /\ LET e == req[r].ev
           u == req[r].user
       IN  IF Live(e)
           THEN /\ events' = [events EXCEPT ![e].attendees = Without(req[r].att, u)]
                /\ reserved' = [reserved EXCEPT ![e] = @ \ {u}]
                /\ req' = [req EXCEPT ![r].pc = "done", ![r].out = "OK",
                                      ![r].att = <<>>]
           ELSE /\ req' = [req EXCEPT ![r].pc = "done", ![r].out = "Internal",
                                      ![r].att = <<>>]
                /\ UNCHANGED <<events, reserved>>
    /\ UNCHANGED <<txnWrite, now>>

\* Lines 133-136: save() throws; nothing is written.
CancelFault(r) ==
    /\ req[r].op = "cancel" /\ req[r].pc = "save"
    /\ req' = [req EXCEPT ![r].pc = "done", ![r].out = "Internal", ![r].att = <<>>]
    /\ UNCHANGED <<events, txnWrite, now, reserved>>

(* ---------------------- PUT /api/events/:id --------------------------- *)
\* An update without the capacity check of lines 147-156.
PutFindNoCapacityCheck(r, u, e, cap, date, titleChanged) ==
    /\ Free(r)
    /\ LET doc == events[e]
           out == IF doc.st # "live" THEN "NotFound"
                  ELSE IF doc.creator # u THEN "Forbidden"
                  ELSE "Pass"
           capMod == IF cap # doc.capacity THEN cap ELSE 0
           dateMod == IF date # doc.date THEN date ELSE Unset
           dirty == titleChanged \/ capMod # 0 \/ dateMod # Unset
       IN  req' = [req EXCEPT ![r] =
               [Idle EXCEPT !.op = "put", !.user = u, !.ev = e,
                   !.pc = IF out = "Pass" THEN (IF dirty THEN "save" ELSE "clean")
                          ELSE "done",
                   !.out = out,
                   !.newCap = IF out = "Pass" THEN capMod ELSE 0,
                   !.newDate = IF out = "Pass" THEN dateMod ELSE Unset]]
    /\ UNCHANGED <<events, txnWrite, now, reserved>>

\* Lines 131-173: findById, 404, 403, the capacity check against the attendee
\* count read, then the fields are set on the local document.  A field set to
\* the value it has is not modified and is not written by save(): newCap 0 and
\* newDate Unset stand for an unmodified field.  titleChanged: title,
\* description or location differ from the stored ones.
PutFind(r, u, e, cap, date, titleChanged) ==
    /\ Free(r)
    /\ LET doc == events[e]
           out == IF doc.st # "live" THEN "NotFound"
                  ELSE IF doc.creator # u THEN "Forbidden"
                  ELSE IF cap < Len(doc.attendees) THEN "CapacityBelowAttendance"
                  ELSE "Pass"
           capMod == IF cap # doc.capacity THEN cap ELSE 0
           dateMod == IF date # doc.date THEN date ELSE Unset
           dirty == titleChanged \/ capMod # 0 \/ dateMod # Unset
       IN  req' = [req EXCEPT ![r] =
               [Idle EXCEPT !.op = "put", !.user = u, !.ev = e,
                   !.pc = IF out = "Pass" THEN (IF dirty THEN "save" ELSE "clean")
                          ELSE "done",
                   !.out = out,
                   !.num = IF out = "CapacityBelowAttendance"
                           THEN Len(doc.attendees) ELSE 0,
                   !.newCap = IF out = "Pass" THEN capMod ELSE 0,
                   !.newDate = IF out = "Pass" THEN dateMod ELSE Unset]]
    /\ UNCHANGED <<events, txnWrite, now, reserved>>

\* Lines 175-179: save() writes the modified fields; of a document no longer in
\* the store it throws (line 185 answers 500).
PutSave(r) ==
    /\ req[r].op = "put" /\ req[r].pc = "save"
    /\ Unlocked(req[r].ev, r)
    /\ LET e == req[r].ev
       IN  IF Live(e)
           THEN /\ events' = [events EXCEPT
                      ![e].capacity = IF req[r].newCap # 0 THEN req[r].newCap ELSE @,
                      ![e].date = IF req[r].newDate # Unset THEN req[r].newDate ELSE @]
                /\ req' = [req EXCEPT ![r].pc = "done", ![r].out = "OK",
                                      ![r].newCap = 0, ![r].newDate = Unset]
           ELSE /\ req' = [req EXCEPT ![r].pc = "done", ![r].out = "Internal",
                                      ![r].newCap = 0, ![r].newDate = Unset]
                /\ UNCHANGED events
    /\ UNCHANGED <<txnWrite, now, reserved>>

\* Line 175 when nothing was modified: save() writes nothing and succeeds.
PutSaveClean(r) ==
    /\ req[r].op = "put" /\ req[r].pc = "clean"
    /\ req' = [req EXCEPT ![r].pc = "done", ![r].out = "OK"]
    /\ UNCHANGED <<events, txnWrite, now, reserved>>

\* Lines 180-186: save() throws; nothing is written.
PutFault(r) ==
    /\ req[r].op = "put" /\ req[r].pc = "save"
    /\ req' = [req EXCEPT ![r].pc = "done", ![r].out = "Internal",
                          ![r].newCap = 0, ![r].newDate = Unset]
    /\ UNCHANGED <<events, txnWrite, now, reserved>>

(* --------------------- DELETE /api/events/:id ------------------------- *)
\* A delete without the creator check of lines 199-202.
DeleteFindNoCreatorCheck(r, u, e) ==
    /\ Free(r)
    /\ LET out == IF events[e].st # "live" THEN "NotFound" ELSE "Pass"
       IN  req' = [req EXCEPT ![r] =
               [Idle EXCEPT !.op = "delete", !.user = u, !.ev = e,
                   !.pc = IF out = "Pass" THEN "remove" ELSE "done",
                   !.out = out]]
    /\ UNCHANGED <<events, txnWrite, now, reserved>>

\* Lines 194-202: findById, 404, 403.
DeleteFind(r, u, e) ==
    /\ Free(r)
    /\ LET doc == events[e]
           out == IF doc.st # "live" THEN "NotFound"
                  ELSE IF doc.creator # u THEN "Forbidden"
                  ELSE "Pass"
       IN  req' = [req EXCEPT ![r] =
               [Idle EXCEPT !.op = "delete", !.user = u, !.ev = e,
                   !.pc = IF out = "Pass" THEN "remove" ELSE "done",
                   !.out = out]]
    /\ UNCHANGED <<events, txnWrite, now, reserved>>

\* Lines 212-213: findByIdAndDelete; its result is not looked at.
DeleteRemove(r) ==
    /\ req[r].op = "delete" /\ req[r].pc = "remove"
    /\ Unlocked(req[r].ev, r)
    /\ events' = [events EXCEPT ![req[r].ev] = GoneEvent]
    /\ reserved' = [reserved EXCEPT ![req[r].ev] = {}]
    /\ req' = [req EXCEPT ![r].pc = "done", ![r].out = "OK"]
    /\ UNCHANGED <<txnWrite, now>>

\* Lines 214-217: findByIdAndDelete throws.
DeleteFault(r) ==
    /\ req[r].op = "delete" /\ req[r].pc = "remove"
    /\ req' = [req EXCEPT ![r].pc = "done", ![r].out = "Internal"]
    /\ UNCHANGED <<events, txnWrite, now, reserved>>

(* ------------------------ GET /api/events ----------------------------- *)
\* The date parameters of a listing: none, or one of the dates events have.
DateParams == {Unset} \cup Dates

\* Lines 16-27: the least date the query asks for.  query.date is {$gte: now}
\* (line 16) and, when the date parameter is given, is assigned {$gte: that
\* date} (line 26).
MinDate(dateParam, t) == IF dateParam # Unset THEN dateParam ELSE t

\* .sort({date: 1}): the ids of S by ascending date.
RECURSIVE SortByDate(_)
SortByDate(S) ==
    IF S = {} THEN <<>>
    ELSE LET first == CHOOSE e \in S : \A e2 \in S :
                          \/ events[e].date < events[e2].date
                          \/ events[e].date = events[e2].date /\ e <= e2
         IN  <<first>> \o SortByDate(S \ {first})

\* Lines 13-34: Event.find(query) sorted by date, and the 200.  searched: the
\* search parameter is given; hit: the events whose title matches it.
GetEvents(r, searched, hit, dateParam) ==
    /\ Free(r)
    /\ LET found == {e \in EventIds :
                        /\ Live(e)
                        /\ events[e].date >= MinDate(dateParam, now)
                        /\ searched => e \in hit}
       IN  req' = [req EXCEPT ![r] =
               [Idle EXCEPT !.op = "list", !.pc = "done", !.out = "OK",
                            !.list = SortByDate(found)]]
    /\ UNCHANGED <<events, txnWrite, now, reserved>>

(* ----------------------- POST /api/events ----------------------------- *)
\* Lines 81-102: a new document under an id never used before, and the 201.
\* Events are created while their RSVP window still opens within the instants
\* modelled.
CreateEvent(r, u, cap, date) ==
    /\ Free(r)
    /\ now + RespectMs \in Instants
    /\ \E e \in EventIds :
        /\ events[e].st = "free"
        /\ \A e2 \in EventIds : e2 < e => events[e2].st # "free"
        /\ events' = [events EXCEPT ![e] = NewEvent(u, cap, date, now)]
        /\ req' = [req EXCEPT ![r] =
              [Idle EXCEPT !.op = "create", !.user = u, !.ev = e, !.pc = "done",
                           !.out = "Created"]]
    /\ UNCHANGED <<txnWrite, now, reserved>>

(* --------------------------- specifications --------------------------- *)
RsvpStep ==
    \/ \E r \in Reqs : RsvpUpdate(r)
    \/ \E r \in Reqs : RsvpCommit(r)
    \/ \E r \in Reqs : RsvpRefetch(r)
    \/ \E r \in Reqs : RsvpFault(r)

OtherStep ==
    \/ \E r \in Reqs : CancelSave(r)
    \/ \E r \in Reqs : CancelFault(r)
    \/ \E r \in Reqs : PutSave(r)
    \/ \E r \in Reqs : PutSaveClean(r)
    \/ \E r \in Reqs : PutFault(r)
    \/ \E r \in Reqs : DeleteRemove(r)
    \/ \E r \in Reqs : DeleteFault(r)

Create(r) ==
    \E u \in Creators, cap \in Capacities, d \in Dates : CreateEvent(r, u, cap, d)

\* A request arrives at handler slot r.
Arrive(r) ==
    \/ \E u \in Users, e \in EventIds : RsvpFind(r, u, e)
    \/ \E u \in Users, e \in EventIds : RsvpFindFault(r, u, e)
    \/ \E u \in Users, e \in EventIds : CancelFind(r, u, e)
    \/ \E u \in Users, e \in EventIds, cap \in Capacities, d \in Dates,
          tc \in BOOLEAN : PutFind(r, u, e, cap, d, tc)
    \/ \E u \in Users, e \in EventIds : DeleteFind(r, u, e)
    \/ Create(r)
    \/ \E searched \in BOOLEAN, hit \in SUBSET EventIds, dp \in DateParams :
          GetEvents(r, searched, hit, dp)

\* Any number of handlers in flight, interleaved at their store calls.
Next ==
    \/ Tick
    \/ \E r \in Reqs : Arrive(r)
    \/ RsvpStep
    \/ OtherStep

Spec == Init /\ [][Next]_vars

\* Only reservation requests run: no event's capacity changes.
NextReserve ==
    \/ Tick
    \/ \E r \in Reqs, u \in Users, e \in EventIds : RsvpFind(r, u, e)
    \/ \E r \in Reqs, u \in Users, e \in EventIds : RsvpFindFault(r, u, e)
    \/ RsvpStep

SpecReserve == Init /\ [][NextReserve]_vars

ArriveAlone(r) == (\A r2 \in Reqs : Free(r2)) /\ Arrive(r)

\* One request at a time: a request arrives only when no other is in flight.
NextSeq ==
    \/ Tick
    \/ \E r \in Reqs : ArriveAlone(r)
    \/ RsvpStep
    \/ OtherStep

SpecSeq == Init /\ [][NextSeq]_vars

RsvpFindOnce(r, u, e) == req[r].pc = "idle" /\ RsvpFind(r, u, e)

RsvpFindFaultOnce(r, u, e) == req[r].pc = "idle" /\ RsvpFindFault(r, u, e)

\* Reservation requests only, each handler slot serving one request.
NextRace ==
    \/ Tick
    \/ \E r \in Reqs, u \in Users, e \in EventIds : RsvpFindOnce(r, u, e)
    \/ \E r \in Reqs, u \in Users, e \in EventIds : RsvpFindFaultOnce(r, u, e)
    \/ RsvpStep

SpecRace == Init /\ [][NextRace]_vars

\* Every store call a reservation handler awaits returns or throws in the end:
\* a handler in flight takes its next step.
RsvpProgress(r) ==
    WF_vars(RsvpUpdate(r) \/ RsvpCommit(r) \/ RsvpRefetch(r) \/ RsvpFault(r))

\* Reservation requests only, each handler slot serving one request, and no
\* handler waiting for ever on the store.
SpecLive == Init /\ [][NextRace]_vars /\ \A r \in Reqs : RsvpProgress(r)

\* A store with one event more, each event with room for every user, the
\* rsvpOpenAt field and the later of the dates, at the instant the RSVP
\* windows open.
InitFrame ==
    /\ events = [e \in 1..(NumEvents + 1) |-> NewEvent(1, NumUsers, 60000, 0)]
    /\ txnWrite = [e \in EventIds |-> 0]
    /\ now = RespectMs
    /\ req = [r \in Reqs |-> Idle]
    /\ reserved = [e \in EventIds |-> {}]

\* Reservation and cancel requests only, over a time too short for the clock
\* to move.
NextFrame ==
    \/ \E r \in Reqs, u \in Users, e \in EventIds : RsvpFind(r, u, e)
    \/ \E r \in Reqs, u \in Users, e \in EventIds : RsvpFindFault(r, u, e)
    \/ \E r \in Reqs, u \in Users, e \in EventIds : CancelFind(r, u, e)
    \/ RsvpStep
    \/ \E r \in Reqs : CancelSave(r)
    \/ \E r \in Reqs : CancelFault(r)

SpecFrame == InitFrame /\ [][NextFrame]_vars

(* ------------------------------ claims -------------------------------- *)
WithinCapacity(e) == Live(e) => Len(events[e].attendees) <= events[e].capacity

\* C1: with only reservation requests running, in any number and any
\* interleaving, no event ever has more attendees than its capacity.
C1_ReserveNeverOverbooks == \A e \in EventIds : WithinCapacity(e)

\* C1 witness: an event is full and a request that had passed the pre-checks
\* was turned away by the conditional write.
C1_Witness ==
    \E e \in EventIds, r \in Reqs :
        /\ Live(e) /\ Len(events[e].attendees) = events[e].capacity
        /\ req[r].op = "rsvp" /\ req[r].ev = e /\ req[r].out = "LostRace"

\* C2: with every operation running (capacity edits, reservations, cancels),
\* no event ever has more attendees than its capacity.
C2_CapacityAlways ==
    \A e \in EventIds :
        events[e].st = "live" => events[e].capacity >= Len(events[e].attendees)

\* C3: no event's attendees holds a user id more than once.
C3_NoDuplicateAttendee ==
    \A e \in EventIds :
        \A i, j \in 1..Len(events[e].attendees) :
            i # j => events[e].attendees[i] # events[e].attendees[j]

\* C3 witness: two users attend an event and a cancel has been answered 200.
C3_Witness ==
    \E e \in EventIds, r \in Reqs :
        /\ Len(events[e].attendees) >= 2
        /\ req[r].op = "cancel" /\ req[r].ev = e /\ req[r].pc = "done"
        /\ req[r].out = "OK"

\* What the claims say of a request, in the claims' own terms.
Members(e) == Range(events[e].attendees)

Answered(r, op) == req[r].op = op /\ req[r].pc = "done"

Faulted(r) == req[r].out \in {"Internal", "NoResponse"}

\* A request for operation op arrives at slot r in this step.
Arrives(r, op) == Free(r) /\ req'[r] # req[r] /\ req'[r].op = op

\* A request in flight at slot r takes a step.
Continues(r, op) == ~Free(r) /\ req'[r] # req[r] /\ req[r].op = op

\* The opening instant: the stored field, or createdAt + 60 s without it.
OpensAt(doc) ==
    IF doc.rsvpOpenAt = Unset THEN doc.createdAt + 60000 ELSE doc.rsvpOpenAt

FirstFailingCheck(doc, u, t) ==
    CASE doc.st # "live" -> "NotFound"
      [] doc.st = "live" /\ doc.date < t -> "Expired"
      [] doc.st = "live" /\ doc.date >= t /\ t < OpensAt(doc) -> "NotYetOpen"
      [] doc.st = "live" /\ doc.date >= t /\ t >= OpensAt(doc)
            /\ u \in Range(doc.attendees) -> "AlreadyReserved"
      [] doc.st = "live" /\ doc.date >= t /\ t >= OpensAt(doc)
            /\ u \notin Range(doc.attendees)
            /\ Len(doc.attendees) >= doc.capacity -> "AtCapacity"
      [] OTHER -> "none"

C5_Arrival(r) ==
    (Arrives(r, "rsvp") /\ now' = now /\ req'[r].out # "Internal") =>
        LET want == FirstFailingCheck(events[req'[r].ev], req'[r].user, now)
        IN  /\ want # "none" =>
                req'[r].out = want /\ req'[r].pc = "done" /\ events' = events
            /\ want = "none" => req'[r].pc = "update"

C5_Success(r) ==
    (Continues(r, "rsvp") /\ ~Faulted(r)') =>
        /\ req[r].pc = "update" => req'[r].pc = "commit" /\ events' = events
        /\ req[r].pc = "commit" =>
              events' = [events EXCEPT ![req[r].ev].attendees = Append(@, req[r].user)]
        /\ req[r].pc = "refetch" =>
              req'[r].pc = "done" /\ req'[r].out = "OK" /\ events' = events

\* C5: with one request at a time and one reading of the clock, the first
\* failing check in the order missing, past, not yet open, already reserved,
\* at capacity decides the rejection; when none fails the call is answered 200
\* and the attendees become the old ones followed by the caller.
C5_FirstFailingCheckDecides ==
    [][\A r \in Reqs : C5_Arrival(r) /\ C5_Success(r)]_vars

\* C5 witness: on a full event one call was answered 200 and another was
\* turned away at capacity.
C5_Witness ==
    \E r1, r2 \in Reqs :
        /\ Answered(r1, "rsvp") /\ req[r1].out = "OK"
        /\ Answered(r2, "rsvp") /\ req[r2].out = "AtCapacity"
        /\ req[r1].ev = req[r2].ev /\ req[r1].user \in Members(req[r1].ev)

C6_Gate(r) ==
    (Arrives(r, "rsvp") /\ now' = now
        /\ req'[r].out \notin {"Internal", "NotFound", "Expired"}) =>
        (req'[r].out = "NotYetOpen" <=> now < OpensAt(events[req'[r].ev]))

C6_NoEarlyAdmission ==
    \A e \in EventIds :
        (Live(e) /\ Range(events'[e].attendees) \ Members(e) # {}) =>
            now' >= OpensAt(events[e])

\* C6: the gate rejects a call exactly when its instant is before the opening
\* instant (the stored field, or createdAt + 60 s without it), so a call at the
\* opening instant passes; and no user joins the attendees before that instant.
C6_GateInclusive ==
    [][(\A r \in Reqs : C6_Gate(r)) /\ C6_NoEarlyAdmission]_vars

\* C6 witness: on a record without the field, at the instant createdAt + 60 s,
\* one call has been answered 200 and the call made 1 ms earlier was refused
\* with one second to wait.
C6_Witness ==
    \E r1, r2 \in Reqs :
        LET e == req[r1].ev
        IN  /\ Live(e) /\ events[e].rsvpOpenAt = Unset
            /\ now = events[e].createdAt + RespectMs
            /\ Answered(r1, "rsvp") /\ req[r1].out = "OK"
            /\ Answered(r2, "rsvp") /\ req[r2].ev = e
            /\ req[r2].out = "NotYetOpen" /\ req[r2].num = 1

\* C7: a refusal by the time gate reports a wait of at least one second.
C7_WaitAtLeastOneSecond ==
    \A r \in Reqs :
        (Answered(r, "rsvp") /\ req[r].out = "NotYetOpen") => req[r].num >= 1

C8_Step(r) ==
    (Arrives(r, "rsvp") /\ req'[r].out # "Internal"
        /\ req'[r].user \in reserved[req'[r].ev]
        /\ events[req'[r].ev].date >= now) =>
        /\ req'[r].out = "AlreadyReserved" /\ req'[r].pc = "done"
        /\ events' = events /\ reserved' = reserved /\ txnWrite' = txnWrite

\* C8: once a user's reservation is committed and until that user cancels, each
\* further reservation call of that user for the event, while the event's date
\* has not passed, is refused as already reserved and changes nothing.
C8_RepeatIsRejected == [][\A r \in Reqs : C8_Step(r)]_vars

\* C8 witness: a repeated call was refused as already reserved on a full event.
C8_Witness ==
    \E r \in Reqs :
        /\ Answered(r, "rsvp") /\ req[r].out = "AlreadyReserved"
        /\ req[r].user \in reserved[req[r].ev]
        /\ Len(events[req[r].ev].attendees) = events[req[r].ev].capacity

C9_CancelFrees(r) ==
    (Continues(r, "cancel") /\ req'[r].out = "OK") =>
        LET e == req[r].ev
        IN  /\ req[r].user \notin Range(events'[e].attendees)
            /\ Len(events'[e].attendees) = Len(events[e].attendees) - 1
            /\ Len(events'[e].attendees) < events'[e].capacity

C9_Rejoin(r) ==
    LET e == req'[r].ev
        u == req'[r].user
    IN  ( /\ Arrives(r, "rsvp") /\ req'[r].out # "Internal"
          /\ \E c \in Reqs \ {r} :
                Answered(c, "cancel") /\ req[c].out = "OK"
                    /\ req[c].ev = e /\ req[c].user = u
          /\ Live(e) /\ events[e].date >= now
          /\ u \notin Members(e)
          /\ Len(events[e].attendees) < events[e].capacity )
        => req'[r].pc = "update"

C9_Restores(r) ==
    (Continues(r, "rsvp") /\ ~Faulted(r)') =>
        /\ req[r].pc = "update" => req'[r].pc = "commit"
        /\ req[r].pc = "commit" => req[r].user \in Range(events'[req[r].ev].attendees)
        /\ req[r].pc = "refetch" => req'[r].out = "OK"

\* C9: a cancel frees the caller's seat; a reservation call by the same user
\* afterwards, on the event not yet past and with room, passes every check, is
\* committed and answered 200, and the user is an attendee again.
C9_CancelThenReserve ==
    [][\A r \in Reqs : C9_CancelFrees(r) /\ C9_Rejoin(r) /\ C9_Restores(r)]_vars

\* C9 witness: the user's cancel was answered 200, the same user's later
\* reservation was answered 200, and the user attends.
C9_Witness ==
    \E c, r \in Reqs :
        /\ Answered(c, "cancel") /\ req[c].out = "OK"
        /\ Answered(r, "rsvp") /\ req[r].out = "OK"
        /\ req[r].ev = req[c].ev /\ req[r].user = req[c].user
        /\ req[r].user \in Members(req[r].ev)

C10_Arrival(r) ==
    Arrives(r, "cancel") =>
        LET e == req'[r].ev
            u == req'[r].user
        IN  /\ ~Live(e) =>
                req'[r].out = "NotFound" /\ req'[r].pc = "done" /\ events' = events
            /\ (Live(e) /\ u \notin Members(e)) =>
                req'[r].out = "NotReserved" /\ req'[r].pc = "done" /\ events' = events
            /\ (Live(e) /\ u \in Members(e)) => req'[r].pc = "save"

C10_Save(r) ==
    (Continues(r, "cancel") /\ ~Faulted(r)') =>
        LET e == req[r].ev
        IN  /\ req'[r].out = "OK"
            /\ Range(events'[e].attendees) = Members(e) \ {req[r].user}
            /\ events' = [events EXCEPT ![e].attendees = events'[e].attendees]

\* C10: cancel answers NotFound for a missing event and NotReserved, changing
\* nothing, for a user who is not an attendee; for an attendee it removes the
\* user whatever the event's date and opening instant are.
C10_CancelOutcomes == [][\A r \in Reqs : C10_Arrival(r) /\ C10_Save(r)]_vars

\* C10 witness: a cancel was answered 200 after the event's date had passed.
C10_Witness ==
    \E r \in Reqs :
        /\ Answered(r, "cancel") /\ req[r].out = "OK"
        /\ Live(req[r].ev) /\ events[req[r].ev].date < now

C11_Step(r) ==
    Arrives(r, "put") =>
        LET u == req'[r].user
            e == req'[r].ev
        IN  \A cap \in Capacities, d \in Dates, tc \in BOOLEAN :
                ( /\ PutFind(r, u, e, cap, d, tc)
                  /\ Live(e) /\ events[e].creator = u
                  /\ cap < Len(events[e].attendees) )
                => /\ req'[r].out = "CapacityBelowAttendance"
                   /\ req'[r].num = Len(events[e].attendees)
                   /\ req'[r].pc = "done"
                   /\ events' = events

\* C11: an update by the creator asking for a capacity below the number of
\* attendees the event has is answered with the capacity error carrying that
\* number, ends there with nothing left to save, and the event is unchanged.
C11_CapacityBelowAttendance == [][\A r \in Reqs : C11_Step(r)]_vars

\* C11 witness: the creator's update of an event with two attendees was
\* refused with the count 2, and the event still has capacity 2.
C11_Witness ==
    \E r \in Reqs :
        LET e == req[r].ev
        IN  /\ Answered(r, "put") /\ req[r].out = "CapacityBelowAttendance"
            /\ req[r].num = 2 /\ req[r].user = events[e].creator
            /\ Live(e) /\ Len(events[e].attendees) = 2 /\ events[e].capacity = 2

C12_Step(r) ==
    ( /\ Arrives(r, "put") \/ Arrives(r, "delete")
      /\ Live(req'[r].ev)
      /\ events[req'[r].ev].creator # req'[r].user )
    => /\ req'[r].out = "Forbidden" /\ req'[r].pc = "done"
       /\ events' = events

C12_CreatorKept ==
    \A e \in EventIds :
        (Live(e) /\ events'[e].st = "live") => events'[e].creator = events[e].creator

\* C12: an update or a delete asked by a user who is not the event's creator
\* is answered Forbidden and ends there, the event staying as it is; and no
\* step changes the creator of an event.
C12_OnlyCreator == [][(\A r \in Reqs : C12_Step(r)) /\ C12_CreatorKept]_vars

\* C12 witness: an update and a delete by a user other than the creator were
\* both answered Forbidden, and the event is there.
C12_Witness ==
    \E r1, r2 \in Reqs :
        LET e == req[r1].ev
        IN  /\ Answered(r1, "put") /\ req[r1].out = "Forbidden"
            /\ Answered(r2, "delete") /\ req[r2].out = "Forbidden"
            /\ req[r2].ev = e /\ Live(e)
            /\ req[r1].user # events[e].creator
            /\ req[r2].user # events[e].creator

C13_Created(e) ==
    (events[e].st = "free" /\ events'[e].st = "live") =>
        /\ events'[e].attendees = <<>>
        /\ events'[e].rsvpOpenAt = now + 60000
        /\ events'[e].createdAt = now

C13_FieldsKept(e) ==
    (Live(e) /\ events'[e].st = "live") =>
        /\ events'[e].createdAt = events[e].createdAt
        /\ events'[e].rsvpOpenAt = events[e].rsvpOpenAt

C13_OpenAfterCreation ==
    \A e \in EventIds :
        Live(e) => /\ OpensAt(events[e]) >= events[e].createdAt
                   /\ events[e].rsvpOpenAt # Unset =>
                          events[e].rsvpOpenAt >= events[e].createdAt

\* C13: a created event starts with no attendee, its creator included, and
\* with rsvpOpenAt 60 s after the instant of creation; no step changes
\* createdAt or rsvpOpenAt afterwards, and in every state the window of an
\* event opens no earlier than the event was created.
C13_CreationFields ==
    /\ []C13_OpenAfterCreation
    /\ [][\A e \in EventIds : C13_Created(e) /\ C13_FieldsKept(e)]_vars

\* C13 witness: an event was created by a request, has been updated by its
\* creator since, and has attendees.
C13_Witness ==
    \E r1, r2 \in Reqs :
        LET e == req[r1].ev
        IN  /\ Answered(r1, "create") /\ req[r1].out = "Created" /\ Live(e)
            /\ Answered(r2, "put") /\ req[r2].out = "OK" /\ req[r2].ev = e
            /\ events[e].attendees # <<>>
            /\ events[e].rsvpOpenAt = events[e].createdAt + RespectMs

C14_Step(r) ==
    Arrives(r, "list") =>
        \A i \in 1..Len(req'[r].list) : events[req'[r].list[i]].date >= now

\* C14: whatever search and date parameters it is given, the listing of
\* events holds only events whose date is not before the instant of the
\* request.
C14_ListsUpcomingOnly == [][\A r \in Reqs : C14_Step(r)]_vars

\* C15: a user whose reservation call was answered 200, and who has not
\* cancelled since, is among the attendees for as long as the event exists.
C15_ReservationDurable ==
    \A r \in Reqs :
        ( /\ Answered(r, "rsvp") /\ req[r].out = "OK"
          /\ Live(req[r].ev)
          /\ req[r].user \in reserved[req[r].ev] )
        => req[r].user \in Members(req[r].ev)

\* C16: no reservation adds a user to an event whose date has passed at the
\* instant the user is added.
C16_NoJoinAfterDate ==
    [][\A e \in EventIds :
          (Live(e) /\ Range(events'[e].attendees) \ Members(e) # {}) =>
              events'[e].date >= now']_vars

\* C17: a reservation call that is not answered 200 has had its transaction
\* aborted, so that nothing it wrote is in the store, and is answered with one
\* of the rejections or, after a fault, with the 500.
C17_FailureLeavesNoTrace ==
    \A r \in Reqs :
        (Answered(r, "rsvp") /\ req[r].out # "OK") =>
            /\ req[r].txn = "aborted"
            /\ req[r].out \in {"NotFound", "Expired", "NotYetOpen", "AlreadyReserved",
                                "AtCapacity", "LostRace", "Internal"}

\* C18: a reservation call is answered 200 exactly when its transaction has
\* committed the caller into the attendees.
C18_SuccessIffCommitted ==
    \A r \in Reqs :
        Answered(r, "rsvp") => (req[r].out = "OK" <=> req[r].txn = "committed")

Count(att, u) == Cardinality({i \in 1..Len(att) : att[i] = u})

\* C19: of two reservation calls of one user for one event, no other call
\* having run, at most one is answered 200 and the user is in the attendees at
\* most once; when both got past the date and the time gate and the store did
\* not fault, exactly one is answered 200 and the other is refused as already
\* reserved or by the conditional write.
C19_SameUserOnce ==
    \A r1, r2 \in Reqs :
        ( /\ r1 # r2
          /\ req[r1].op = "rsvp" /\ req[r2].op = "rsvp"
          /\ req[r1].ev = req[r2].ev /\ req[r1].user = req[r2].user )
        => /\ ~(req[r1].out = "OK" /\ req[r2].out = "OK")
           /\ Count(events[req[r1].ev].attendees, req[r1].user) <= 1
           /\ ( /\ Answered(r1, "rsvp") /\ Answered(r2, "rsvp")
                /\ \A r3 \in Reqs \ {r1, r2} : req[r3].pc = "idle"
                /\ {req[r1].out, req[r2].out} \cap
                       {"NotFound", "Expired", "NotYetOpen", "Internal", "NoResponse"} = {} )
              => \E w \in {r1, r2} :
                    /\ req[w].out = "OK"
                    /\ \A l \in {r1, r2} \ {w} :
                          req[l].out \in {"AlreadyReserved", "LostRace"}

\* C19 witness: both calls of the user passed the pre-checks on an event with
\* two seats; one was answered 200, the conditional write refused the other,
\* and the user holds one seat.
C19_Witness ==
    \E r1, r2 \in Reqs :
        LET e == req[r1].ev
        IN  /\ Answered(r1, "rsvp") /\ Answered(r2, "rsvp")
            /\ req[r2].ev = e /\ req[r1].user = req[r2].user
            /\ req[r1].out = "OK" /\ req[r2].out = "LostRace"
            /\ events[e].capacity = 2 /\ events[e].attendees = <<req[r1].user>>

C20_StaysGone(e) == events[e].st = "gone" => events'[e] = events[e]

C20_LaterCall(r) ==
    ( /\ events[req'[r].ev].st = "gone"
      /\ \E op \in {"rsvp", "cancel", "put", "delete"} : Arrives(r, op) )
    => /\ req'[r].pc = "done"
       /\ req'[r].out \in {"NotFound", "Internal"}

C20_InFlightWrite(r) ==
    ( /\ events[req[r].ev].st = "gone"
      /\ \/ Continues(r, "rsvp") /\ req[r].pc = "update"
         \/ Continues(r, "cancel") /\ req[r].pc = "save"
         \/ Continues(r, "put") /\ req[r].pc = "save" )
    => /\ req'[r].pc = "done"
       /\ req'[r].out \in {"LostRace", "Internal"}

\* C20: a deleted event stays deleted whatever runs afterwards; a call for its
\* id that arrives after the deletion is answered NotFound (500 on a store
\* fault); and the write of a cancel, an update or a reservation that had read
\* the event before the deletion fails and is answered with an error.
C20_DeletionTerminal ==
    [][(\E e \in EventIds : events[e].st = "gone") =>
          /\ \A e \in EventIds : C20_StaysGone(e)
          /\ \A r \in Reqs : C20_LaterCall(r) /\ C20_InFlightWrite(r)]_vars

\* C20 witness: the event created by one request has been deleted, and a
\* reservation call that came to the other handler slot after the delete was
\* answered NotFound.
C20_Witness ==
    \E r1, r2 \in Reqs :
        LET e == req[r1].ev
        IN  /\ r1 # r2
            /\ Answered(r1, "create") /\ events[e].st = "gone"
            /\ Answered(r2, "rsvp") /\ req[r2].ev = e /\ req[r2].out = "NotFound"

C21_Step(r) ==
    (req'[r] # req[r] /\ req'[r].op \in {"rsvp", "cancel"}) =>
        \A e \in EventIds :
            IF e = req'[r].ev
            THEN events'[e] = [events[e] EXCEPT !.attendees = events'[e].attendees]
            ELSE events'[e] = events[e]

\* C21: a step of a reservation or of a cancel, whatever its outcome, changes
\* at most the attendees of the event the call is for: that event's other
\* fields and every other event stay as they are.
C21_OnlyAttendeesOfTarget == [][\A r \in Reqs : C21_Step(r)]_vars

\* C21 witness: a cancel was answered 200 on one event that still has an
\* attendee, and a reservation 200 on another event that has two.
C21_Witness ==
    \E r1, r2 \in Reqs :
        /\ Answered(r1, "cancel") /\ req[r1].out = "OK"
        /\ Answered(r2, "rsvp") /\ req[r2].out = "OK"
        /\ req[r1].ev # req[r2].ev
        /\ Len(events[req[r1].ev].attendees) = 1
        /\ Len(events[req[r2].ev].attendees) = 2

\* C22: every reservation request that has started comes to its end with a
\* response sent to the caller and its transaction committed or aborted.
C22_EveryCallAnswered ==
    \A r \in Reqs :
        (req[r].op = "rsvp") ~>
            ( /\ req[r].pc = "done"
              /\ req[r].out # "NoResponse"
              /\ req[r].txn \in {"committed", "aborted"} )
====
